---------------------------- MODULE Spec2Model ----------------------------
(***************************************************************************)
(* A model of backend/server_monitor.py (class ServerMonitor): the         *)
(* subscription registry, the change detector, the history recorder and    *)
(* the scheduler loop.                                                     *)
(*                                                                         *)
(* Python objects are modelled with their identity where the code depends  *)
(* on it: a subscription dict is an object of `heap`, and                  *)
(* self.subscriptions is a list of object ids.  A worker that iterates     *)
(* self.subscriptions keeps iterating the list object it started on: an    *)
(* append (add_subscription) changes that object in place, a rebinding     *)
(* (remove_subscription, clear_subscriptions) leaves it behind.            *)
(*                                                                         *)
(* Python's None is the string "None"; an optional argument that is a      *)
(* list or a dict is NoneArg (None) or Some(v).  The createdAt field of a  *)
(* subscription is written once and never read, and is left out.           *)
(***************************************************************************)
EXTENDS Naturals, Sequences, FiniteSets, TLC

VARIABLES
    heap,           \* the subscription dicts ever created, by object id
    subscriptions,  \* self.subscriptions: the ids in the current list object
    known_servers,  \* self.known_servers
    running,        \* self.running
    check_interval, \* self.check_interval
    thread,         \* self.thread: a worker slot, or 0 for None
    workers,        \* the threads running monitor_loop / a check, by slot
    pending,        \* by caller, its add_subscription call between lines 50 and 51
    sent,           \* the messages handed to send_notification, in order
    clock,          \* datetime.now(), as a logical clock
    ret             \* the last API call and what it returned

vars == <<heap, subscriptions, known_servers, running, check_interval, thread,
          workers, pending, sent, clock, ret>>

---------------------------------------------------------------------------
(* Values *)

None == "None"
NoneArg == << >>
Some(v) == <<v>>
Absent == "<absent>"

EmptyDict == [k \in {} |-> None]

\* dict.get(k): the value, or None for a missing key
Get(d, k) == IF k \in DOMAIN d THEN d[k] ELSE None

\* d[k] = v
Put(d, k, v) == [x \in (DOMAIN d) \cup {k} |-> IF x = k THEN v ELSE d[x]]

\* history[-100:] keeps the last HistoryCap entries
HistoryCap == 100

\* the default and the least accepted check interval, in seconds
DefaultInterval == 60
MinInterval == 60

---------------------------------------------------------------------------
(* Bounds of the model *)

MaxObjects == 2     \* subscription dicts created in one behaviour
MaxSent == 2        \* a check begins only while fewer messages were sent
MaxHistory == 102   \* entries appended in one behaviour of the history model
WorkerSlots == 1    \* threads that exist at once in the loop model


---------------------------------------------------------------------------
(* Notification Composer: send_availability_alert *)

\* The text built at lines 269-313, as the fields it prints.  The "available"
\* text prints the raw status and the memory and storage of the configuration,
\* the other text a fixed status and the configuration's display string only;
\* the server name is printed when it is truthy.
Message(plan_code, datacenter, status, change_type, config_info, server_name) ==
    IF change_type = "available"
    THEN [kind |-> "available",
          serverName |-> IF server_name \in {None, Absent, ""} THEN None ELSE server_name,
          planCode |-> plan_code,
          datacenter |-> datacenter,
          config |-> config_info,
          status |-> status]
    ELSE [kind |-> "unavailable",
          serverName |-> IF server_name \in {None, Absent, ""} THEN None ELSE server_name,
          planCode |-> plan_code,
          datacenter |-> datacenter,
          config |-> IF config_info = NoneArg THEN NoneArg
                     ELSE Some([display |-> config_info[1].display]),
          status |-> "unavailable"]

\* The outcomes of one send_notification call: it returns a truthy value, a
\* falsy one, or raises (caught at line 324).
DeliverResults == {"ok", "fail", "raise"}

\* send_availability_alert that calls send_notification again when it failed
send_availability_alert_Retried(log, plan_code, datacenter, status, change_type, config_info, server_name, result) ==
    LET once == Append(log, [message |-> Message(plan_code, datacenter, status,
                                                 change_type, config_info, server_name),
                             result |-> result])
    IN  IF result = "ok" THEN once
        ELSE Append(once, [message |-> Message(plan_code, datacenter, status,
                                               change_type, config_info, server_name),
                           result |-> result])

\* send_availability_alert: one call of send_notification, whatever it returns
send_availability_alert(log, plan_code, datacenter, status, change_type, config_info, server_name, result) ==
    Append(log, [message |-> Message(plan_code, datacenter, status, change_type,
                                     config_info, server_name),
                 result |-> result])

---------------------------------------------------------------------------
(* Change Detector and History Recorder: _check_and_notify_change *)

\* ChangeType with the test of notifyUnavailable left out
ChangeType_Unflagged(old_status, status, notifyAvailable, notifyUnavailable) ==
    IF old_status \in {None, "unavailable"} /\ status # "unavailable"
    THEN (IF notifyAvailable THEN "available" ELSE None)
    ELSE IF old_status \notin {"unavailable", None} /\ status = "unavailable"
    THEN "unavailable"
    ELSE None

\* ChangeType with a first observation that fires whatever the status
ChangeType_LoudFirst(old_status, status, notifyAvailable, notifyUnavailable) ==
    IF old_status = None
    THEN (IF notifyAvailable THEN "available" ELSE None)
    ELSE IF old_status = "unavailable" /\ status # "unavailable"
    THEN (IF notifyAvailable THEN "available" ELSE None)
    ELSE IF old_status \notin {"unavailable", None} /\ status = "unavailable"
    THEN (IF notifyUnavailable THEN "unavailable" ELSE None)
    ELSE None

\* lines 198-224: the change type of a transition, or None when nothing fires
ChangeType(old_status, status, notifyAvailable, notifyUnavailable) ==
    IF old_status = None /\ status # "unavailable"
    THEN (IF notifyAvailable THEN "available" ELSE None)
    ELSE IF old_status = "unavailable" /\ status # "unavailable"
    THEN (IF notifyAvailable THEN "available" ELSE None)
    ELSE IF old_status \notin {"unavailable", None} /\ status = "unavailable"
    THEN (IF notifyUnavailable THEN "unavailable" ELSE None)
    ELSE None

\* Truncate that keeps the first HistoryCap entries
Truncate_Oldest(history) ==
    IF Len(history) > HistoryCap
    THEN SubSeq(history, 1, HistoryCap)
    ELSE history

\* lines 252-254: keep the last HistoryCap entries
Truncate(history) ==
    IF Len(history) > HistoryCap
    THEN SubSeq(history, Len(history) - HistoryCap + 1, Len(history))
    ELSE history

\* lines 234-250: the entry appended for a fired transition
HistoryEntry(now, dc, status, change_type, old_status, config_info) ==
    [timestamp |-> now,
     datacenter |-> dc,
     status |-> status,
     changeType |-> change_type,
     oldStatus |-> old_status,
     config |-> config_info]

\* lines 250-254: append, then truncate
Record(history, entry) == Truncate(Append(history, entry))

\* _check_and_notify_change on a context [sub, sent, clock]: the subscription
\* dict, the messages sent so far and the time.  `result` is what
\* send_notification does if it is called.
CheckAndNotifyChange(ctx, plan_code, dc, status, old_status, config_info, result) ==
    LET change_type == ChangeType(old_status, status,
                                  ctx.sub.notifyAvailable, ctx.sub.notifyUnavailable)
    IN  IF change_type = None
        THEN ctx
        ELSE [sub |-> [ctx.sub EXCEPT !.history =
                          Record(@, HistoryEntry(ctx.clock, dc, status, change_type,
                                                 old_status, config_info))],
              sent |-> send_availability_alert(ctx.sent, plan_code, dc, status,
                                               change_type, config_info,
                                               ctx.sub.serverName, result),
              clock |-> ctx.clock + 1]

---------------------------------------------------------------------------
(* Snapshot Normalizer and the loop over a snapshot: check_availability_change *)

\* line 155 and line 176: the status key of a configuration at a location
StatusKey(dc, config_key) == dc \o "|" \o config_key

\* A snapshot is the sequence of the items of the dict check_availability
\* returned, in the dict's order.  An item is flat (a status string),
\* config (a dict with "datacenters"), bad (a dict whose "datacenters" is
\* None: .items() raises at line 149 and at line 175) or other (neither a
\* string nor a dict with "datacenters": passed over by both loops).
Flat(key, status) ==
    [key |-> key, kind |-> "flat", status |-> status, datacenters |-> << >>,
     memory |-> None, storage |-> None]
Config(key, datacenters, memory, storage) ==
    [key |-> key, kind |-> "config", status |-> None, datacenters |-> datacenters,
     memory |-> memory, storage |-> storage]
Bad(key) ==
    [key |-> key, kind |-> "bad", status |-> None, datacenters |-> << >>,
     memory |-> None, storage |-> None]
Other(key) ==
    [key |-> key, kind |-> "other", status |-> None, datacenters |-> << >>,
     memory |-> None, storage |-> None]
At(dc, status) == [dc |-> dc, status |-> status]

\* lines 142-144 and 159-163: config_info of a configuration item
ConfigInfo(item) ==
    LET memory == IF item.memory = Absent THEN "N/A" ELSE item.memory
        storage == IF item.storage = Absent THEN "N/A" ELSE item.storage
    IN  Some([memory |-> memory, storage |-> storage,
              display |-> memory \o " + " \o storage])

\* Filtered for a check that goes through every location
Filtered_Never(monitored_dcs, dc) == FALSE

\* lines 134 and 151: a location the subscription's filter leaves out
Filtered(monitored_dcs, dc) == monitored_dcs # {} /\ dc \notin monitored_dcs

\* lines 149-165: the locations of one configuration item, from the i-th on
RECURSIVE CheckDatacenters(_, _, _, _, _, _, _)
CheckDatacenters(ctx, plan_code, item, last_status, monitored_dcs, results, i) ==
    IF i > Len(item.datacenters)
    THEN ctx
    ELSE LET dc == item.datacenters[i].dc
             status == item.datacenters[i].status
             status_key == StatusKey(dc, item.key)
             next == IF Filtered(monitored_dcs, dc)
                     THEN ctx
                     ELSE CheckAndNotifyChange(ctx, plan_code, dc, status,
                                               Get(last_status, status_key),
                                               ConfigInfo(item), results[i])
         IN  CheckDatacenters(next, plan_code, item, last_status, monitored_dcs,
                              results, i + 1)

\* lines 124-165: one iteration of the loop over the snapshot's items
CheckOneItem(ctx, plan_code, item, last_status, monitored_dcs, results) ==
    IF item.kind = "flat"
    THEN IF Filtered(monitored_dcs, item.key)
         THEN ctx
         ELSE CheckAndNotifyChange(ctx, plan_code, item.key, item.status,
                                   Get(last_status, item.key), NoneArg, results[1])
    ELSE IF item.kind = "config"
    THEN CheckDatacenters(ctx, plan_code, item, last_status, monitored_dcs, results, 1)
    ELSE ctx

\* lines 124-165: the loop over the items, from the i-th on.  A bad item
\* raises: the loop ends there, with what the items before it did.
\* results[i][j] is what send_notification does for location j of item i.
RECURSIVE CheckItems(_, _, _, _, _, _, _)
CheckItems(ctx, plan_code, snapshot, last_status, monitored_dcs, results, i) ==
    IF i > Len(snapshot)
    THEN [ctx |-> ctx, raised |-> FALSE]
    ELSE IF snapshot[i].kind = "bad"
    THEN [ctx |-> ctx, raised |-> TRUE]
    ELSE CheckItems(CheckOneItem(ctx, plan_code, snapshot[i], last_status,
                                 monitored_dcs, results[i]),
                    plan_code, snapshot, last_status, monitored_dcs, results, i + 1)

\* lines 175-177: the status keys of one configuration item
RECURSIVE NormalizeDatacenters(_, _, _)
NormalizeDatacenters(d, item, i) ==
    IF i > Len(item.datacenters)
    THEN d
    ELSE NormalizeDatacenters(
             Put(d, StatusKey(item.datacenters[i].dc, item.key),
                 item.datacenters[i].status),
             item, i + 1)

\* lines 168-177: new_last_status of a snapshot without bad items
RECURSIVE Normalize(_, _, _)
Normalize(d, snapshot, i) ==
    IF i > Len(snapshot)
    THEN d
    ELSE LET item == snapshot[i]
         IN  Normalize(IF item.kind = "flat" THEN Put(d, item.key, item.status)
                       ELSE IF item.kind = "config" THEN NormalizeDatacenters(d, item, 1)
                       ELSE d,
                       snapshot, i + 1)

new_last_status(snapshot) == Normalize(EmptyDict, snapshot, 1)

\* What a call of check_availability does: it raises (caught at line 181),
\* returns a falsy value (line 114 returns) or returns a snapshot.
Raises == [kind |-> "raise", snapshot |-> << >>]
Empty == [kind |-> "empty", snapshot |-> << >>]
Returns(snapshot) == [kind |-> "snapshot", snapshot |-> snapshot]

\* UpdateStatus that leaves lastStatus as it was
UpdateStatus_Kept(sub, snapshot) == sub

\* UpdateStatus that writes the snapshot's keys over the old lastStatus
UpdateStatus_Merged(sub, snapshot) ==
    [sub EXCEPT !.lastStatus = Normalize(@, snapshot, 1)]

\* line 179: lastStatus is replaced once every item went through
UpdateStatus(sub, snapshot) == [sub EXCEPT !.lastStatus = new_last_status(snapshot)]

\* check_availability_change that takes a falsy return for a snapshot
\* without items
check_availability_change_EmptyReset(ctx, outcome, results) ==
    IF outcome.kind = "raise"
    THEN ctx
    ELSE LET done == CheckItems(ctx, ctx.sub.planCode, outcome.snapshot,
                                ctx.sub.lastStatus, ctx.sub.datacenters, results, 1)
         IN  IF done.raised
             THEN done.ctx
             ELSE [done.ctx EXCEPT !.sub = UpdateStatus(@, outcome.snapshot)]

\* check_availability_change that replaces lastStatus after an exception too
check_availability_change_Committed(ctx, outcome, results) ==
    IF outcome.kind \in {"raise", "empty"}
    THEN ctx
    ELSE LET done == CheckItems(ctx, ctx.sub.planCode, outcome.snapshot,
                                ctx.sub.lastStatus, ctx.sub.datacenters, results, 1)
         IN  [done.ctx EXCEPT !.sub = UpdateStatus(@, outcome.snapshot)]

\* check_availability_change on a context [sub, sent, clock], from the return
\* of check_availability to its own return.  lastStatus and datacenters are
\* read once (lines 116-117); an exception ends the check before line 179.
check_availability_change(ctx, outcome, results) ==
    IF outcome.kind \in {"raise", "empty"}
    THEN ctx
    ELSE LET done == CheckItems(ctx, ctx.sub.planCode, outcome.snapshot,
                                ctx.sub.lastStatus, ctx.sub.datacenters, results, 1)
         IN  IF done.raised
             THEN done.ctx
             ELSE [done.ctx EXCEPT !.sub = UpdateStatus(@, outcome.snapshot)]

---------------------------------------------------------------------------
(* Subscription Registry *)

\* A dict nothing refers to any more is freed: the list, a thread in a check
\* of it and an add_subscription call that found it are what refers to one.
Freed ==
    [planCode |-> "<freed>", datacenters |-> {}, notifyAvailable |-> FALSE,
     notifyUnavailable |-> FALSE, lastStatus |-> EmptyDict, history |-> << >>,
     serverName |-> Absent]

Referenced(o, list, ws, calls) ==
    \/ \E i \in 1..Len(list) : list[i] = o
    \/ \E w \in DOMAIN ws : ws[w].sub = o \/ \E i \in 1..Len(ws[w].iter) : ws[w].iter[i] = o
    \/ \E c \in DOMAIN calls : calls[c].existing = o

Collect(objects, list, ws, calls) ==
    [o \in 1..Len(objects) |->
        IF Referenced(o, list, ws, calls) THEN objects[o] ELSE Freed]

\* `datacenters or []`
OrEmpty(datacenters) == IF datacenters = NoneArg THEN {} ELSE datacenters[1]

\* line 50: the first subscription of the list with this planCode, or 0
RECURSIVE FindFrom(_, _, _, _)
FindFrom(objects, list, plan_code, i) ==
    IF i > Len(list) THEN 0
    ELSE IF objects[list[i]].planCode = plan_code THEN list[i]
    ELSE FindFrom(objects, list, plan_code, i + 1)

Existing(plan_code) == FindFrom(heap, subscriptions, plan_code, 1)

\* Updated with lastStatus reset, as for a new subscription
Updated_Reset(sub, datacenters, notify_available, notify_unavailable, server_name) ==
    [sub EXCEPT !.datacenters = OrEmpty(datacenters),
                !.notifyAvailable = notify_available,
                !.notifyUnavailable = notify_unavailable,
                !.serverName = server_name,
                !.lastStatus = EmptyDict]

\* lines 53-60: the update of an existing subscription.  Every subscription
\* is made at lines 64-72 with a "history" key, so line 60 never runs.
Updated(sub, datacenters, notify_available, notify_unavailable, server_name) ==
    [sub EXCEPT !.datacenters = OrEmpty(datacenters),
                !.notifyAvailable = notify_available,
                !.notifyUnavailable = notify_unavailable,
                !.serverName = server_name]

\* lines 64-76: the dict of a new subscription
NewSubscription(plan_code, datacenters, notify_available, notify_unavailable, server_name, last_status, history) ==
    [planCode |-> plan_code,
     datacenters |-> OrEmpty(datacenters),
     notifyAvailable |-> notify_available,
     notifyUnavailable |-> notify_unavailable,
     lastStatus |-> IF last_status # NoneArg THEN last_status[1] ELSE EmptyDict,
     history |-> IF history # NoneArg THEN history[1] ELSE << >>,
     serverName |-> IF server_name \in {None, ""} THEN Absent ELSE server_name]

\* lines 51-78, given what line 50 found: update in place, or append
\* (calls: the add_subscription calls still in progress after this one)
AddApply(existing, plan_code, datacenters, notify_available, notify_unavailable, server_name, last_status, history, calls) ==
    IF existing # 0
    THEN /\ heap' = Collect([heap EXCEPT ![existing] =
                                Updated(@, datacenters, notify_available,
                                        notify_unavailable, server_name)],
                            subscriptions, workers, calls)
         /\ UNCHANGED subscriptions
    ELSE /\ Len(heap) < MaxObjects
         /\ subscriptions' = Append(subscriptions, Len(heap) + 1)
         /\ heap' = Append(heap, NewSubscription(plan_code, datacenters,
                               notify_available, notify_unavailable, server_name,
                               last_status, history))

\* add_subscription, run without interruption
add_subscription(plan_code, datacenters, notify_available, notify_unavailable, server_name, last_status, history) ==
    /\ AddApply(Existing(plan_code), plan_code, datacenters, notify_available,
                notify_unavailable, server_name, last_status, history, pending)
    /\ ret' = [op |-> "add", val |-> None]
    /\ UNCHANGED <<known_servers, running, check_interval, thread, workers,
                   pending, sent, clock>>

\* A caller with no add_subscription call in progress
NoCall ==
    [active |-> FALSE, existing |-> 0, plan_code |-> None, datacenters |-> NoneArg,
     notify_available |-> FALSE, notify_unavailable |-> FALSE, server_name |-> None,
     last_status |-> NoneArg, history |-> NoneArg]

\* line 50 of a call of add_subscription that another thread may interrupt
\* before line 51
AddBegin(c, plan_code, datacenters, notify_available, notify_unavailable, server_name, last_status, history) ==
    /\ ~pending[c].active
    /\ pending' = [pending EXCEPT ![c] =
          [active |-> TRUE, existing |-> Existing(plan_code), plan_code |-> plan_code,
           datacenters |-> datacenters, notify_available |-> notify_available,
           notify_unavailable |-> notify_unavailable, server_name |-> server_name,
           last_status |-> last_status, history |-> history]]
    /\ UNCHANGED <<heap, subscriptions, known_servers, running, check_interval,
                   thread, workers, sent, clock, ret>>

\* lines 51-81 of that call
AddFinish(c) ==
    LET call == pending[c]
    IN  /\ call.active
        /\ pending' = [pending EXCEPT ![c] = NoCall]
        /\ AddApply(call.existing, call.plan_code, call.datacenters,
                    call.notify_available, call.notify_unavailable,
                    call.server_name, call.last_status, call.history, pending')
        /\ ret' = [op |-> "add", val |-> None]
        /\ UNCHANGED <<known_servers, running, check_interval, thread, workers,
                       sent, clock>>

\* A rebinding of self.subscriptions leaves behind the list object a worker
\* iterates (line 391): the worker goes on with the old object.
Detached(ws) ==
    [w \in DOMAIN ws |->
        IF ws[w].live THEN [ws[w] EXCEPT !.live = FALSE, !.iter = subscriptions]
        ELSE ws[w]]

\* line 86: the list without the subscriptions of this planCode
RECURSIVE Without(_, _, _)
Without(objects, list, plan_code) ==
    IF list = << >> THEN << >>
    ELSE IF objects[Head(list)].planCode # plan_code
    THEN <<Head(list)>> \o Without(objects, Tail(list), plan_code)
    ELSE Without(objects, Tail(list), plan_code)

remove_subscription(plan_code) ==
    /\ subscriptions' = Without(heap, subscriptions, plan_code)
    /\ workers' = Detached(workers)
    /\ ret' = [op |-> "remove", val |-> Len(subscriptions') < Len(subscriptions)]
    /\ heap' = Collect(heap, subscriptions', workers', pending)
    /\ UNCHANGED <<known_servers, running, check_interval, thread, pending,
                   sent, clock>>

clear_subscriptions ==
    /\ subscriptions' = << >>
    /\ workers' = Detached(workers)
    /\ ret' = [op |-> "clear", val |-> Len(subscriptions)]
    /\ heap' = Collect(heap, subscriptions', workers', pending)
    /\ UNCHANGED <<known_servers, running, check_interval, thread, pending,
                   sent, clock>>

\* Accepted with the least interval itself rejected
Accepted_Above(interval) == ~(interval <= MinInterval)

\* line 457: the intervals set_check_interval accepts
Accepted(interval) == ~(interval < MinInterval)

set_check_interval(interval) ==
    /\ check_interval' = IF Accepted(interval) THEN interval ELSE check_interval
    /\ ret' = [op |-> "set_check_interval", val |-> Accepted(interval)]
    /\ UNCHANGED <<heap, subscriptions, known_servers, running, thread, workers,
                   pending, sent, clock>>

\* get_status()
get_status ==
    [running |-> running,
     subscriptions_count |-> Len(subscriptions),
     known_servers_count |-> Cardinality(known_servers),
     check_interval |-> check_interval,
     subscriptions |-> [i \in 1..Len(subscriptions) |-> heap[subscriptions[i]]]]

---------------------------------------------------------------------------
(* A thread: its place in monitor_loop *)

\* pc: "none" (no thread in the slot), "while" (line 385), "for" (lines
\* 391-393), "check" (line 394: check_availability_change called, the call
\* of check_availability in flight), "sleep" (line 395), "wait_if" (line
\* 406), "wait" (lines 409-412), "exited" (line 414).
NoThread ==
    [pc |-> "none", live |-> FALSE, iter |-> << >>, idx |-> 0, sub |-> 0, left |-> 0]

Alive(w) == workers[w].pc \notin {"none", "exited"}

\* the list object the for statement of line 391 iterates
IterList(w) == IF workers[w].live THEN subscriptions ELSE workers[w].iter

\* line 385: the loop goes on while self.running
MayLoop == running

\* line 385, and lines 388-391 when the loop goes on
While(w) ==
    /\ workers[w].pc = "while"
    /\ workers' = [workers EXCEPT ![w] =
          IF ~MayLoop THEN [NoThread EXCEPT !.pc = "exited"]
          ELSE IF subscriptions # << >>
          THEN [@ EXCEPT !.pc = "for", !.live = TRUE, !.idx = 1]
          ELSE [@ EXCEPT !.pc = "wait_if"]]
    /\ UNCHANGED <<heap, subscriptions, known_servers, running, check_interval,
                   thread, pending, sent, clock, ret>>

\* line 392: the test that lets the check of the next subscription begin
MayBegin == running

\* lines 391-394: the next subscription of the list, the test of
\* self.running, and the call of check_availability_change
For(w) ==
    /\ workers[w].pc = "for"
    /\ workers' = [workers EXCEPT ![w] =
          IF workers[w].idx > Len(IterList(w)) \/ ~MayBegin
          THEN [@ EXCEPT !.pc = "wait_if", !.live = FALSE, !.iter = << >>, !.idx = 0]
          ELSE [@ EXCEPT !.pc = "check", !.sub = IterList(w)[workers[w].idx],
                         !.idx = @ + 1]]
    /\ heap' = Collect(heap, subscriptions, workers', pending)
    /\ UNCHANGED <<subscriptions, known_servers, running, check_interval,
                   thread, pending, sent, clock, ret>>

\* Check without the handler of line 181: what check_availability raises
\* reaches the handler of line 399, which ends the pass
Check_Propagated(w, outcome, results) ==
    /\ workers[w].pc = "check"
    /\ workers' = [workers EXCEPT ![w] =
          IF outcome.kind = "raise"
          THEN [@ EXCEPT !.pc = "wait_if", !.live = FALSE, !.iter = << >>,
                         !.idx = 0, !.sub = 0]
          ELSE [@ EXCEPT !.pc = "sleep", !.sub = 0]]
    /\ heap' = Collect(heap, subscriptions, workers', pending)
    /\ UNCHANGED <<subscriptions, known_servers, running, check_interval,
                   thread, pending, ret, sent, clock>>

\* lines 109-183 in the loop's thread: check_availability returns and the
\* snapshot is gone through
Check(w, outcome, results) ==
    LET sub == workers[w].sub
        ctx == check_availability_change(
                   [sub |-> heap[sub], sent |-> sent, clock |-> clock],
                   outcome, results)
    IN  /\ workers[w].pc = "check"
        /\ workers' = [workers EXCEPT ![w] = [@ EXCEPT !.pc = "sleep", !.sub = 0]]
        /\ heap' = Collect([heap EXCEPT ![sub] = ctx.sub], subscriptions,
                           workers', pending)
        /\ sent' = ctx.sent
        /\ clock' = ctx.clock
        /\ UNCHANGED <<subscriptions, known_servers, running, check_interval,
                       thread, pending, ret>>

\* check_availability_change(subscription) called on a subscription of the
\* list while no loop runs it
CallCheck(sub, outcome, results) ==
    LET ctx == check_availability_change(
                   [sub |-> heap[sub], sent |-> sent, clock |-> clock],
                   outcome, results)
    IN  /\ \E i \in 1..Len(subscriptions) : subscriptions[i] = sub
        /\ \A w \in DOMAIN workers : ~Alive(w)
        /\ heap' = [heap EXCEPT ![sub] = ctx.sub]
        /\ sent' = ctx.sent
        /\ clock' = ctx.clock
        /\ ret' = [op |-> "check", val |-> None]
        /\ UNCHANGED <<subscriptions, known_servers, running, check_interval,
                       thread, workers, pending>>

\* line 395: time.sleep(1)
Sleep(w) ==
    /\ workers[w].pc = "sleep"
    /\ workers' = [workers EXCEPT ![w].pc = "for"]
    /\ UNCHANGED <<heap, subscriptions, known_servers, running, check_interval,
                   thread, pending, sent, clock, ret>>

\* line 406: the wait is entered while self.running
MayEnterWait == running

\* lines 406-409: the wait begins with range(self.check_interval)
WaitIf(w) ==
    /\ workers[w].pc = "wait_if"
    /\ workers' = [workers EXCEPT ![w] =
          IF MayEnterWait THEN [@ EXCEPT !.pc = "wait", !.left = check_interval]
          ELSE [@ EXCEPT !.pc = "while"]]
    /\ UNCHANGED <<heap, subscriptions, known_servers, running, check_interval,
                   thread, pending, sent, clock, ret>>

\* MayWait for a wait that sleeps the whole interval
MayWait_Always == TRUE

\* line 410: the test that lets the wait go on
MayWait == running

\* lines 409-412: one increment of the wait
Wait(w) ==
    /\ workers[w].pc = "wait"
    /\ workers' = [workers EXCEPT ![w] =
          IF workers[w].left = 0 \/ ~MayWait
          THEN [@ EXCEPT !.pc = "while", !.left = 0]
          ELSE [@ EXCEPT !.left = @ - 1]]
    /\ UNCHANGED <<heap, subscriptions, known_servers, running, check_interval,
                   thread, pending, sent, clock, ret>>

---------------------------------------------------------------------------
(* start and stop *)

FreeSlots == {w \in DOMAIN workers : ~Alive(w)}

\* line 418: start has nothing to do
AlreadyRunning == running

\* lines 418-427.  A new thread takes a slot no live thread holds.
start(w) ==
    /\ IF AlreadyRunning
       THEN /\ ret' = [op |-> "start", val |-> FALSE]
            /\ UNCHANGED <<running, thread, workers>>
       ELSE /\ w \in FreeSlots
            /\ running' = TRUE
            /\ thread' = w
            /\ workers' = [workers EXCEPT ![w] = [NoThread EXCEPT !.pc = "while"]]
            /\ ret' = [op |-> "start", val |-> TRUE]
    /\ UNCHANGED <<heap, subscriptions, known_servers, check_interval, pending,
                   sent, clock>>

\* NotRunning for a stop that never finds the monitor stopped
NotRunning_Never == FALSE

\* line 431: stop has nothing to do
NotRunning == ~running

\* lines 431-443.  join(timeout=3) only waits: stop returns when the thread
\* has exited or the three seconds are over, with the thread still alive.
stop ==
    /\ IF NotRunning
       THEN /\ ret' = [op |-> "stop", val |-> FALSE]
            /\ UNCHANGED running
       ELSE /\ running' = FALSE
            /\ ret' = [op |-> "stop", val |-> TRUE]
    /\ UNCHANGED <<heap, subscriptions, known_servers, check_interval, thread,
                   workers, pending, sent, clock>>

---------------------------------------------------------------------------
(* The inputs *)

PlanCodes == {"24ska01", "24sk20"}
DetectCodes == {"24ska01"}
Statuses == {"unavailable", "available", "1H"}

\* flat snapshots of one location, and configuration snapshots of one
\* configuration at one location
FlatSnapshots == {<<Flat("fsn1", s)>> : s \in Statuses}
ConfigSnapshots ==
    {<<Config("X.32GB.512GB", <<At("rbx", s)>>, "32GB", "512GB")>> : s \in Statuses}
\* flat snapshots of two locations
PairSnapshots ==
    {<<Flat("fsn1", s), Flat("rbx", "available")>> : s \in {"unavailable", "available"}}
DetectSnapshots == FlatSnapshots \cup ConfigSnapshots \cup PairSnapshots

\* the results of the send_notification calls of a snapshot of at most n
\* items of at most m locations
Results(n, m, outcomes) == [1..n -> [1..m -> outcomes]]

\* what check_availability may return while the bound on messages allows
\* another firing check
Outcomes(snapshots) ==
    {Raises, Empty} \cup
    (IF Len(sent) < MaxSent THEN {Returns(s) : s \in snapshots} ELSE {})

---------------------------------------------------------------------------
(* The monitor after __init__ (lines 24-32), with n thread slots and k    *)
(* callers of add_subscription                                             *)

InitWith(n, k) ==
    /\ heap = << >>
    /\ subscriptions = << >>
    /\ known_servers = {}
    /\ running = FALSE
    /\ check_interval = DefaultInterval
    /\ thread = 0
    /\ workers = [w \in 1..n |-> NoThread]
    /\ pending = [c \in 1..k |-> NoCall]
    /\ sent = << >>
    /\ clock = 0
    /\ ret = [op |-> "init", val |-> None]

---------------------------------------------------------------------------
(* Spec: the change detector.  A subscription is added and reconfigured,   *)
(* and check_availability_change is called on it, one call at a time.      *)

Init == InitWith(0, 0)

\* every send_notification call of this specification succeeds
DetectResults == Results(2, 1, {"ok"})

Add ==
    \E plan_code \in DetectCodes, datacenters \in {NoneArg, Some({"rbx"})},
       notify_available \in BOOLEAN, notify_unavailable \in BOOLEAN,
       last_status \in {NoneArg, Some(new_last_status(<<Flat("fsn1", "available")>>))} :
        add_subscription(plan_code, datacenters, notify_available,
                         notify_unavailable, None, last_status, NoneArg)

Checked ==
    \E sub \in 1..Len(heap), outcome \in Outcomes(DetectSnapshots),
       results \in DetectResults :
        CallCheck(sub, outcome, results)

Next == Add \/ Checked

Spec == Init /\ [][Next]_vars

---------------------------------------------------------------------------
(* What a step did, read off the state before and after it *)

\* the messages handed to send_notification in the step
NewMessages == SubSeq(sent', Len(sent) + 1, Len(sent'))

\* the history entries of a subscription made in the step
NewEntries(sub) ==
    SelectSeq(heap'[sub].history, LAMBDA e : e.timestamp >= clock)

\* the status keys of a snapshot: each with its location, its status and
\* the configuration it belongs to
RECURSIVE KeysFrom(_, _)
KeysFrom(snapshot, i) ==
    IF i > Len(snapshot) THEN {}
    ELSE LET item == snapshot[i]
             here == IF item.kind = "flat"
                     THEN {[key |-> item.key, dc |-> item.key, status |-> item.status,
                            config |-> NoneArg]}
                     ELSE IF item.kind = "config"
                     THEN {[key |-> StatusKey(item.datacenters[j].dc, item.key),
                            dc |-> item.datacenters[j].dc,
                            status |-> item.datacenters[j].status,
                            config |-> ConfigInfo(item)] :
                           j \in 1..Len(item.datacenters)}
                     ELSE {}
         IN  here \cup KeysFrom(snapshot, i + 1)

StatusKeys(snapshot) == KeysFrom(snapshot, 1)

\* the messages among msgs about a status key, and the entries among
\* entries about it
MessagesOf(msgs, k) ==
    SelectSeq(msgs, LAMBDA m : m.message.datacenter = k.dc
                               /\ (m.message.config = NoneArg) = (k.config = NoneArg))
EntriesOf(entries, k) ==
    SelectSeq(entries, LAMBDA e : e.datacenter = k.dc /\ e.config = k.config)

\* a step that is a call of check_availability_change on sub that got outcome
IsCheck(sub, outcome) ==
    /\ ret'.op = "check"
    /\ \E results \in DetectResults : CallCheck(sub, outcome, results)

---------------------------------------------------------------------------
(* C1 *)

\* C1: a check of a status key that passes the location filter fires (one
\* message and one history entry) exactly when the prior status is absent or
\* "unavailable", the new one is not "unavailable" and notifyAvailable is
\* set (changeType "available"), or the prior status is present and not
\* "unavailable", the new one is "unavailable" and notifyUnavailable is set
\* (changeType "unavailable"); otherwise nothing fires.
C1_FiresIff ==
    [][\A sub \in 1..Len(heap), snapshot \in DetectSnapshots :
          IsCheck(sub, Returns(snapshot)) =>
            \A k \in StatusKeys(snapshot) :
              LET prior == Get(heap[sub].lastStatus, k.key)
                  up == /\ prior \in {None, "unavailable"}
                        /\ k.status # "unavailable"
                        /\ heap[sub].notifyAvailable
                  down == /\ prior \notin {None, "unavailable"}
                          /\ k.status = "unavailable"
                          /\ heap[sub].notifyUnavailable
                  msgs == MessagesOf(NewMessages, k)
                  entries == EntriesOf(NewEntries(sub), k)
              IN  ~Filtered(heap[sub].datacenters, k.dc) =>
                    /\ (up \/ down) <=> (Len(msgs) = 1 /\ Len(entries) = 1)
                    /\ ~(up \/ down) <=> (Len(msgs) = 0 /\ Len(entries) = 0)
                    /\ up => /\ entries[1].changeType = "available"
                             /\ msgs[1].message.kind = "available"
                    /\ down => /\ entries[1].changeType = "unavailable"
                               /\ msgs[1].message.kind = "unavailable"
      ]_vars

\* a subscription that a check took from available to "unavailable" with
\* notifyUnavailable set: its history ends with that fired transition
C1_Witness ==
    \E sub \in 1..Len(heap) :
        /\ heap[sub].history # << >>
        /\ heap[sub].history[Len(heap[sub].history)].changeType = "unavailable"
        /\ heap[sub].history[Len(heap[sub].history)].oldStatus = "available"
        /\ Len(sent) = 2
        /\ sent[2].message.kind = "unavailable"
        /\ sent[1].message.kind = "available"

---------------------------------------------------------------------------
(* C2 *)

\* C2: a check that finds "unavailable" under a status key with no entry in
\* lastStatus sends no message and appends no history entry, whatever
\* notifyAvailable and notifyUnavailable are.
C2_QuietFirst ==
    [][\A sub \in 1..Len(heap), snapshot \in DetectSnapshots :
          IsCheck(sub, Returns(snapshot)) =>
            \A k \in StatusKeys(snapshot) :
              (k.key \notin DOMAIN heap[sub].lastStatus /\ k.status = "unavailable")
                => /\ Len(MessagesOf(NewMessages, k)) = 0
                   /\ Len(EntriesOf(NewEntries(sub), k)) = 0
      ]_vars

\* the first object made, with both flags set, just checked: nothing was
\* sent and no entry made, and fsn1 is known as "unavailable"
C2_Witness ==
    /\ ret.op = "check"
    /\ Len(heap) = 1
    /\ heap[1].notifyAvailable /\ heap[1].notifyUnavailable
    /\ heap[1].datacenters = {}
    /\ Get(heap[1].lastStatus, "fsn1") = "unavailable"
    /\ heap[1].history = << >>
    /\ sent = << >>

---------------------------------------------------------------------------
(* C3 *)

\* the "available" messages among msgs for a plan code and a location
AvailableFor(msgs, plan_code, dc) ==
    SelectSeq(msgs, LAMBDA m : /\ m.message.kind = "available"
                               /\ m.message.planCode = plan_code
                               /\ m.message.datacenter = dc)

\* One successful check after another, for the keys in scope: a key known as
\* "unavailable" and found not "unavailable" gets exactly one "available"
\* message for its location, and lastStatus holds the new status; a key
\* known as not "unavailable" and found so again gets no message.
OnePerTransition(InScope(_, _)) ==
    \A sub \in 1..Len(heap), snapshot \in DetectSnapshots :
        (IsCheck(sub, Returns(snapshot)) /\ heap[sub].notifyAvailable) =>
          \A k \in StatusKeys(snapshot) :
            LET prior == Get(heap[sub].lastStatus, k.key)
                msgs == MessagesOf(NewMessages, k)
            IN  (InScope(sub, k) /\ k.status # "unavailable") =>
                  /\ prior = "unavailable" =>
                       /\ Len(msgs) = 1
                       /\ Len(AvailableFor(msgs, heap[sub].planCode, k.dc)) = 1
                       /\ heap'[sub].lastStatus[k.key] = k.status
                  /\ prior \notin {None, "unavailable"} =>
                       /\ Len(msgs) = 0
                       /\ heap'[sub].lastStatus[k.key] = k.status

AnyKey(sub, k) == TRUE
Monitored(sub, k) == ~Filtered(heap[sub].datacenters, k.dc)

\* C3 as stated: for every subscription with notifyAvailable set and every
\* key, "unavailable" then not "unavailable" in successive successful checks
\* delivers exactly one "available" message for the key's location.
C3_AnySubscription == [][OnePerTransition(AnyKey)]_vars

\* C3, amended: the same for the keys whose location the subscription's
\* location filter lets through (the filter is empty or holds the location).
C3_OnePerTransition == [][OnePerTransition(Monitored)]_vars

\* fsn1 went from "unavailable" to "available" (the one message and the
\* last history entry) and was then found "1H" by a later check
C3_Witness ==
    \E sub \in 1..Len(heap) :
        /\ ret.op = "check"
        /\ heap[sub].notifyAvailable
        /\ Len(sent) = 1
        /\ sent[1].message.datacenter = "fsn1"
        /\ Len(heap[sub].history) = 1
        /\ heap[sub].history[1].oldStatus = "unavailable"
        /\ heap[sub].history[1].status = "available"
        /\ Get(heap[sub].lastStatus, "fsn1") = "1H"

---------------------------------------------------------------------------
(* RegistrySpec: the subscription registry.  A call of add_subscription    *)
(* may be interrupted between line 50 and line 51 by remove_subscription   *)
(* and clear_subscriptions.  RaceSpec: the same with several callers of    *)
(* add_subscription, whose calls interleave with each other too.           *)

MaxCalls == 1       \* callers of add_subscription in RegistrySpec
RaceCalls == 2      \* callers of add_subscription in RaceSpec

\* a restored state: fsn1 known as "available", with the entry that said so
RestoredStatus == new_last_status(<<Flat("fsn1", "available")>>)
RestoredHistory ==
    <<HistoryEntry(0, "fsn1", "available", "available", "unavailable", NoneArg)>>

\* the two ways add_subscription is called here: with its defaults, and
\* with a filter, a name, the flags reversed and a state to restore
AddCalls ==
    {[datacenters |-> NoneArg, notify_available |-> TRUE,
      notify_unavailable |-> FALSE, server_name |-> None,
      last_status |-> NoneArg, history |-> NoneArg],
     [datacenters |-> Some({"rbx"}), notify_available |-> FALSE,
      notify_unavailable |-> TRUE, server_name |-> "KS-2",
      last_status |-> Some(RestoredStatus), history |-> Some(RestoredHistory)]}

RegistryInit == InitWith(0, MaxCalls)

\* (callers are alike: a new call takes the first caller without one)
AddBegun ==
    \E c \in DOMAIN pending, plan_code \in PlanCodes, a \in AddCalls :
      /\ \A b \in 1..(c - 1) : pending[b].active
      /\ AddBegin(c, plan_code, a.datacenters, a.notify_available,
                  a.notify_unavailable, a.server_name, a.last_status, a.history)

AddFinished == \E c \in DOMAIN pending : AddFinish(c)

Removed == \E plan_code \in PlanCodes : remove_subscription(plan_code)

Cleared == clear_subscriptions

RegistryNext == AddBegun \/ AddFinished \/ Removed \/ Cleared

RegistrySpec == RegistryInit /\ [][RegistryNext]_vars

RaceInit == InitWith(0, RaceCalls)

RaceSpec == RaceInit /\ [][RegistryNext]_vars

---------------------------------------------------------------------------
(* C4 *)

\* the subscriptions of the list, as dicts
Listed == {subscriptions[i] : i \in 1..Len(subscriptions)}

\* C4: a call of add_subscription that found a subscription of its planCode
\* (still in the list when the call goes on) leaves that subscription's
\* planCode, lastStatus and history as they were, whatever last_status and
\* history it was given, changes no other subscription, and leaves the list
\* as it was.
C4_AddPreserves ==
    [][\A c \in DOMAIN pending :
          (pending[c].active /\ ~pending'[c].active
              /\ pending[c].existing \in Listed) =>
            LET e == pending[c].existing
            IN  /\ heap'[e].lastStatus = heap[e].lastStatus
                /\ heap'[e].history = heap[e].history
                /\ heap'[e].planCode = heap[e].planCode
                /\ \A o \in Listed \ {e} : heap'[o] = heap[o]
                /\ subscriptions' = subscriptions
      ]_vars

\* a subscription made with a restored state and a name, then updated by a
\* call with the defaults (only the update stores None as the name)
C4_Witness ==
    \E o \in Listed :
        /\ heap[o].serverName = None
        /\ heap[o].datacenters = {}
        /\ heap[o].notifyAvailable /\ ~heap[o].notifyUnavailable
        /\ heap[o].lastStatus = RestoredStatus
        /\ heap[o].history = RestoredHistory

---------------------------------------------------------------------------
(* C7 *)

\* C7: the list holds at most one subscription per planCode.
C7_UniquePlanCode ==
    \A i, j \in 1..Len(subscriptions) :
        heap[subscriptions[i]].planCode = heap[subscriptions[j]].planCode => i = j

-------------------------------------------------------------------------------
(* HistorySpec: one subscription added with no history and checked again   *)
(* and again on one location whose status goes up and down, both flags     *)
(* set; another added with a history restored from storage.                *)

\* the subscription restored from storage
RestoredCode == "24sk20"

\* a stored history of one entry more than the cap
LongHistory ==
    [i \in 1..(HistoryCap + 1) |->
        HistoryEntry(i, "gra", IF i % 2 = 1 THEN "available" ELSE "unavailable",
                     IF i % 2 = 1 THEN "available" ELSE "unavailable",
                     IF i % 2 = 1 THEN "unavailable" ELSE "available", NoneArg)]

HistorySnapshots == {<<Flat("rbx", s)>> : s \in {"unavailable", "available"}}

HistoryAdd ==
    \/ \E plan_code \in DetectCodes :
          add_subscription(plan_code, NoneArg, TRUE, TRUE, None, NoneArg, NoneArg)
    \/ \E history \in {NoneArg, Some(LongHistory)} :
          add_subscription(RestoredCode, NoneArg, TRUE, TRUE, None, NoneArg, history)

HistoryChecked ==
    \E sub \in 1..Len(heap), snapshot \in HistorySnapshots,
       results \in Results(1, 1, {"ok"}) :
        /\ heap[sub].planCode \in DetectCodes
        /\ clock < MaxHistory
        /\ CallCheck(sub, Returns(snapshot), results)

HistoryNext == HistoryAdd \/ HistoryChecked

HistorySpec == Init /\ [][HistoryNext]_vars

---------------------------------------------------------------------------
(* C5 *)

\* C5: the history of every subscription of the list has at most 100
\* entries, in every state reached by add_subscription (with a restored
\* history or without) and check_availability_change.
C5_HistoryCapped ==
    \A sub \in Listed : Len(heap[sub].history) <= HistoryCap

---------------------------------------------------------------------------
(* C6 *)

\* the history entry a message stands for: sent at time `now`
Fired(m, now) ==
    [timestamp |-> now, datacenter |-> m.message.datacenter,
     status |-> m.message.status, changeType |-> m.message.kind]

\* a history entry without the fields no message carries
Shown(e) ==
    [timestamp |-> e.timestamp, datacenter |-> e.datacenter,
     status |-> e.status, changeType |-> e.changeType]

\* C6: a fired transition appended to a history of 100 entries removes the
\* oldest, keeps the others in their order and comes last; and the history
\* of a subscription added with no history is the last 100 fired
\* transitions (all of them while there are no more than 100), in the order
\* they fired.
C6_FifoEviction ==
    /\ [][\A sub \in Listed :
             (Len(heap[sub].history) = HistoryCap
                 /\ heap'[sub].history # heap[sub].history) =>
               /\ Len(heap'[sub].history) = HistoryCap
               /\ \A i \in 1..(HistoryCap - 1) :
                     heap'[sub].history[i] = heap[sub].history[i + 1]
               /\ Len(sent') = Len(sent) + 1
               /\ Shown(heap'[sub].history[HistoryCap])
                     = Fired(sent'[Len(sent')], clock)
         ]_vars
    /\ [](\A sub \in Listed :
             heap[sub].planCode \in DetectCodes =>
               LET n == Len(sent)
                   first == IF n > HistoryCap THEN n - HistoryCap + 1 ELSE 1
                   history == heap[sub].history
               IN  /\ Len(history) = n - first + 1
                   /\ \A i \in 1..Len(history) :
                         Shown(history[i]) = Fired(sent[first + i - 1], first + i - 2))

\* 102 transitions fired on a history that began empty: it holds the last
\* 100, the third of them first
C6_Witness ==
    \E sub \in Listed :
        /\ heap[sub].planCode \in DetectCodes
        /\ Len(sent) = HistoryCap + 2
        /\ Len(heap[sub].history) = HistoryCap
        /\ heap[sub].history[1].timestamp = 2

---------------------------------------------------------------------------
(* LoopSpec: the loop over two subscriptions registered before the first   *)
(* start(), with start(), stop() and set_check_interval() called at any    *)
(* time.  A thread that can take a step takes it in the end.               *)

\* the plan codes subscribed to
LoopCodes == <<"24ska01", "24sk20">>

\* the monitor after add_subscription(code, notify_available=True) for each
\* of LoopCodes
LoopInit ==
    /\ heap = [i \in 1..Len(LoopCodes) |->
                 NewSubscription(LoopCodes[i], NoneArg, TRUE, FALSE, None, NoneArg, NoneArg)]
    /\ subscriptions = [i \in 1..Len(LoopCodes) |-> i]
    /\ known_servers = {}
    /\ running = FALSE
    /\ check_interval = DefaultInterval
    /\ thread = 0
    /\ workers = [w \in 1..WorkerSlots |-> NoThread]
    /\ pending = << >>
    /\ sent = << >>
    /\ clock = 0
    /\ ret = [op |-> "add", val |-> None]

Intervals == {MinInterval - 1, MinInterval, MinInterval + 1}

Started == \E w \in DOMAIN workers : start(w)

Stopped == stop

IntervalSet == \E interval \in Intervals : set_check_interval(interval)

\* check_availability raises, returns nothing, or returns a snapshot whose
\* item raises at line 149
LoopOutcomes == {Raises, Empty, Returns(<<Bad("X.32GB.512GB")>>)}

\* a step of the thread in slot w
Step(w) ==
    \/ While(w)
    \/ For(w)
    \/ \E outcome \in LoopOutcomes, results \in Results(1, 1, {"ok"}) :
          Check(w, outcome, results)
    \/ Sleep(w)
    \/ WaitIf(w)
    \/ Wait(w)

Stepped == \E w \in DOMAIN workers : Step(w)

LoopNext == Started \/ Stopped \/ IntervalSet \/ Stepped

LoopSpec ==
    /\ LoopInit
    /\ [][LoopNext]_vars
    /\ \A w \in 1..WorkerSlots : WF_vars(Step(w))

---------------------------------------------------------------------------
(* C8 *)

\* C8: set_check_interval(s) with s < 60 returns false and leaves
\* check_interval as it was; with s >= 60 it returns true and get_status()
\* then reports s.  check_interval is at least 60 in every reachable state.
C8_IntervalGuard ==
    /\ [][\A s \in Intervals :
             set_check_interval(s) =>
               IF s < 60
               THEN ret'.val = FALSE /\ check_interval' = check_interval
               ELSE ret'.val = TRUE /\ get_status'.check_interval = s
         ]_vars
    /\ [](check_interval >= 60)

\* an interval of 61 was accepted and a later call was rejected
C8_Witness ==
    /\ ret.op = "set_check_interval"
    /\ ret.val = FALSE
    /\ get_status.check_interval = 61

---------------------------------------------------------------------------
(* C9 *)

\* the threads alive
Threads == {w \in DOMAIN workers : Alive(w)}

\* C9: start() returns false and changes nothing while running, and
\* otherwise sets running, spawns one thread at the head of the loop and
\* returns true; stop() returns false and changes nothing while not
\* running, and otherwise clears running and returns true, so that a stop()
\* right after it returns false.
C9_StartStop ==
    /\ [][(\E w \in DOMAIN workers : start(w)) =>
            IF running
            THEN /\ ret'.val = FALSE
                 /\ UNCHANGED <<heap, subscriptions, known_servers, running,
                                check_interval, thread, workers, pending, sent, clock>>
            ELSE /\ ret'.val = TRUE
                 /\ running'
                 /\ \E w \in DOMAIN workers \ Threads :
                       /\ (Threads')= Threads \cup {w}
                       /\ workers'[w].pc = "while"
                       /\ thread' = w
                       /\ \A v \in DOMAIN workers \ {w} : workers'[v] = workers[v]
         ]_vars
    /\ [][stop =>
            IF ~running
            THEN /\ ret'.val = FALSE
                 /\ UNCHANGED <<heap, subscriptions, known_servers, running,
                                check_interval, thread, workers, pending, sent, clock>>
            ELSE /\ ret'.val = TRUE
                 /\ ~running'
                 /\ UNCHANGED <<workers, thread>>
         ]_vars

\* a stop() that returned false after the monitor was started and stopped:
\* the thread of the start has left the loop
C9_Witness ==
    /\ ret.op = "stop"
    /\ ret.val = FALSE
    /\ ~running
    /\ thread # 0
    /\ workers[thread].pc = "exited"

---------------------------------------------------------------------------
(* C10 *)

\* C10: while running is false a thread begins the check of no
\* subscription, a thread in the wait leaves it at its next step, and every
\* thread alive leaves the loop unless running is set again.
C10_CooperativeStop ==
    /\ [][\A w \in DOMAIN workers :
             ~running =>
               /\ (workers[w].pc # "check" => workers'[w].pc # "check")
               /\ (workers[w].pc = "wait" /\ workers'[w] # workers[w]
                      => workers'[w].pc # "wait")
         ]_vars
    /\ \A w \in 1..WorkerSlots :
          (Alive(w) /\ ~running) ~> (~Alive(w) \/ running)

\* stop() returned true while a thread slept after the check of the first
\* of two subscriptions
C10_Witness ==
    \E w \in DOMAIN workers :
        /\ workers[w].pc = "sleep"
        /\ workers[w].idx <= Len(IterList(w))
        /\ ~running
        /\ ret.op = "stop" /\ ret.val = TRUE

---------------------------------------------------------------------------
(* OrphanSpec: the loop of LoopSpec with room for the thread of a start()  *)
(* that follows a stop() whose join (line 440, 3 seconds) ran out while    *)
(* the thread of the start() before was still in a check or a sleep.       *)

OrphanSlots == 2    \* threads that exist at once in the orphan model

OrphanInit ==
    /\ heap = [i \in 1..Len(LoopCodes) |->
                 NewSubscription(LoopCodes[i], NoneArg, TRUE, FALSE, None, NoneArg, NoneArg)]
    /\ subscriptions = [i \in 1..Len(LoopCodes) |-> i]
    /\ known_servers = {}
    /\ running = FALSE
    /\ check_interval = DefaultInterval
    /\ thread = 0
    /\ workers = [w \in 1..OrphanSlots |-> NoThread]
    /\ pending = << >>
    /\ sent = << >>
    /\ clock = 0
    /\ ret = [op |-> "add", val |-> None]

\* lines 439-440: the stop() before has returned.  Its join ends when the
\* thread does, or after 3 seconds with the thread still in
\* check_availability_change, whose calls have no bound on their time.
JoinReturned ==
    IF thread = 0 THEN TRUE
    ELSE ~Alive(thread) \/ workers[thread].pc = "check"

\* start() called by the context that called stop() before
OrphanStarted == (running \/ JoinReturned) /\ Started

OrphanNext == OrphanStarted \/ Stopped \/ Stepped

OrphanSpec == OrphanInit /\ [][OrphanNext]_vars

---------------------------------------------------------------------------
(* C11 *)

\* C11: at most one thread runs monitor_loop at any time, whatever the
\* order of start(), stop() and the threads' steps.
C11_SingleWorker == Cardinality(Threads) <= 1

---------------------------------------------------------------------------
(* New offerings: check_new_servers and send_new_server_alert *)

MaxAlerts == 3      \* an offering-list check begins only while fewer alerts were sent
MaxServers == 3     \* entries of one offering list

\* an entry of the offering list: a dict, with a planCode or with none
Server(plan_code) == [planCode |-> plan_code]

\* line 336: the truthy planCodes of the list
RECURSIVE CurrentCodes(_, _)
CurrentCodes(current_server_list, i) ==
    IF i > Len(current_server_list) THEN {}
    ELSE (IF current_server_list[i].planCode \in {None, Absent, ""} THEN {}
          ELSE {current_server_list[i].planCode})
         \cup CurrentCodes(current_server_list, i + 1)

\* lines 360-378: one call of send_notification with the text of the offering
send_new_server_alert(log, server, result) ==
    Append(log, [message |-> [kind |-> "new", planCode |-> server.planCode],
                 result |-> result])

\* line 348: the first entry of the list with that planCode
FirstWith(current_server_list, server_code) ==
    current_server_list[CHOOSE i \in 1..Len(current_server_list) :
        /\ current_server_list[i].planCode = server_code
        /\ \A j \in 1..(i - 1) : current_server_list[j].planCode # server_code]

\* lines 347-350: the alerts of the new codes, in the order `order` the set
\* is iterated in
RECURSIVE AlertEach(_, _, _, _)
AlertEach(log, current_server_list, order, i) ==
    IF i > Len(order) THEN log
    ELSE AlertEach(send_new_server_alert(log, FirstWith(current_server_list, order[i]), "ok"),
                   current_server_list, order, i + 1)

\* the orders a set can be iterated in
Orders(S) ==
    {order \in [1..Cardinality(S) -> S] :
        \A i, j \in 1..Cardinality(S) : i # j => order[i] # order[j]}

\* line 339: known_servers counts as not initialised
Unseeded == known_servers = {}

\* lines 328-358
check_new_servers(current_server_list) ==
    LET current_codes == CurrentCodes(current_server_list, 1)
        new_servers == current_codes \ known_servers
    IN  /\ IF Unseeded
           THEN /\ known_servers' = current_codes
                /\ UNCHANGED sent
           ELSE IF new_servers # {}
           THEN /\ \E order \in Orders(new_servers) :
                      sent' = AlertEach(sent, current_server_list, order, 1)
                /\ known_servers' = current_codes
           ELSE UNCHANGED <<known_servers, sent>>
        /\ ret' = [op |-> "check_new_servers", val |-> None]
        /\ UNCHANGED <<heap, subscriptions, running, check_interval, thread,
                       workers, pending, clock>>

---------------------------------------------------------------------------
(* OfferingSpec: offering lists are checked one after another *)

OfferingCodes == {"24ska01", "24sk20", "24sk30"}

ServerLists ==
    UNION {[1..n -> {Server(c) : c \in OfferingCodes \cup {Absent}}] : n \in 0..MaxServers}

ServersChecked ==
    \E current_server_list \in ServerLists :
        /\ Len(sent) < MaxAlerts
        /\ check_new_servers(current_server_list)

OfferingNext == ServersChecked

OfferingSpec == Init /\ [][OfferingNext]_vars

---------------------------------------------------------------------------
(* C12 *)

\* the codes alerted in the step
NewAlerts == {NewMessages[i].message.planCode : i \in 1..Len(NewMessages)}

\* C12: the first check of an offering list sends no alert and sets
\* known_servers to the codes of the list; every later check sends one alert
\* for each code of the list that is not in known_servers, and no other.
C12_NewOfferings ==
    [][\A current_server_list \in ServerLists :
          check_new_servers(current_server_list) =>
            IF ret.op = "init"
            THEN /\ NewMessages = << >>
                 /\ known_servers' = CurrentCodes(current_server_list, 1)
            ELSE /\ NewAlerts = CurrentCodes(current_server_list, 1) \ known_servers
                 /\ Len(NewMessages) = Cardinality(NewAlerts)
      ]_vars

---------------------------------------------------------------------------
(* C20 *)

\* C20: no two alerts of a new offering have the same planCode.
C20_AlertedOnce ==
    \A i, j \in 1..Len(sent) :
        i # j => sent[i].message.planCode # sent[j].message.planCode

---------------------------------------------------------------------------
(* FaultSpec: the checks of one subscription with both flags set, where    *)
(* check_availability may fail or return a snapshot with an item that      *)
(* raises, and send_notification may fail.                                 *)

\* one location, alone or followed by an item that raises at line 149
FaultSnapshots ==
    {<<Flat("fsn1", s)>> : s \in {"unavailable", "available"}}
    \cup {<<Flat("fsn1", s), Bad("X.32GB.512GB")>> : s \in {"unavailable", "available"}}

FaultResults == Results(1, 1, DeliverResults)

FaultAdd ==
    \E plan_code \in DetectCodes,
       last_status \in {NoneArg, Some(new_last_status(<<Flat("fsn1", "available")>>))} :
        add_subscription(plan_code, NoneArg, TRUE, TRUE, None, last_status, NoneArg)

FaultChecked ==
    \E sub \in 1..Len(heap), outcome \in Outcomes(FaultSnapshots),
       results \in FaultResults :
        CallCheck(sub, outcome, results)

FaultNext == FaultAdd \/ FaultChecked

FaultSpec == Init /\ [][FaultNext]_vars

\* a step that is a call of check_availability_change on sub that got
\* outcome, with send_notification doing what results says
IsFaultCheck(sub, outcome, results) ==
    /\ ret'.op = "check"
    /\ CallCheck(sub, outcome, results)

---------------------------------------------------------------------------
(* C13 *)

\* C13: a check whose check_availability returns a falsy value sends
\* nothing and leaves the subscription, its lastStatus and its history
\* included, as it was.
C13_EmptySkipped ==
    [][\A sub \in 1..Len(heap), results \in FaultResults :
          IsFaultCheck(sub, Empty, results) =>
            /\ sent' = sent
            /\ heap'[sub] = heap[sub]
      ]_vars

\* a check has returned on a subscription that still has the lastStatus it
\* was restored with, and nothing was sent
C13_Witness ==
    /\ ret.op = "check"
    /\ sent = << >>
    /\ \E sub \in Listed :
          /\ heap[sub].lastStatus = new_last_status(<<Flat("fsn1", "available")>>)
          /\ heap[sub].history = << >>

---------------------------------------------------------------------------
(* C17 *)

\* the transition of a status from prior fires with both flags set
Fires(prior, status) ==
    \/ prior \in {None, "unavailable"} /\ status # "unavailable"
    \/ prior \notin {None, "unavailable"} /\ status = "unavailable"

\* C17: in a check that goes through its snapshot, a transition that fires
\* calls send_notification once, whatever that call does (it returns a
\* truthy value, a falsy one, or raises); the history entry is appended and
\* lastStatus is the snapshot's at the end, so that a check of the same
\* snapshot right after sends nothing.
C17_NoRetry ==
    [][\A sub \in 1..Len(heap), s \in {"unavailable", "available"},
          results \in FaultResults :
          (IsFaultCheck(sub, Returns(<<Flat("fsn1", s)>>), results)
              /\ Fires(Get(heap[sub].lastStatus, "fsn1"), s)) =>
            /\ Len(NewMessages) = 1
            /\ NewMessages[1].result = results[1][1]
            /\ Len(heap'[sub].history) = Len(heap[sub].history) + 1
            /\ heap'[sub].history[Len(heap'[sub].history)].status = s
            /\ heap'[sub].lastStatus = new_last_status(<<Flat("fsn1", s)>>)
            /\ \A again \in FaultResults :
                  check_availability_change(
                      [sub |-> heap'[sub], sent |-> sent', clock |-> clock'],
                      Returns(<<Flat("fsn1", s)>>), again).sent = sent'
      ]_vars

\* a transition whose send_notification returned a falsy value: one
\* message, one history entry, lastStatus updated
C17_Witness ==
    /\ Len(sent) = 1
    /\ sent[1].result = "fail"
    /\ \E sub \in Listed :
          /\ Len(heap[sub].history) = 1
          /\ heap[sub].lastStatus = new_last_status(<<Flat("fsn1", "available")>>)

---------------------------------------------------------------------------
(* C18 *)

\* C18: a check that an exception ends after the first item of its snapshot
\* leaves lastStatus as it was and keeps the message and the history entry
\* of that item if its transition fired; a check that then goes through a
\* snapshot with the same status for that item fires the same transition
\* again.
C18_AbortKeepsStatus ==
    [][\A sub \in 1..Len(heap), s \in {"unavailable", "available"},
          results \in FaultResults :
          IsFaultCheck(sub, Returns(<<Flat("fsn1", s), Bad("X.32GB.512GB")>>), results) =>
            /\ heap'[sub].lastStatus = heap[sub].lastStatus
            /\ Fires(Get(heap[sub].lastStatus, "fsn1"), s) =>
                 /\ Len(NewMessages) = 1
                 /\ Len(heap'[sub].history) = Len(heap[sub].history) + 1
                 /\ \A again \in FaultResults :
                       LET next == check_availability_change(
                                       [sub |-> heap'[sub], sent |-> sent', clock |-> clock'],
                                       Returns(<<Flat("fsn1", s)>>), again)
                       IN  /\ Len(next.sent) = Len(sent') + 1
                           /\ next.sent[Len(next.sent)].message = NewMessages[1].message
                           /\ Len(next.sub.history) = Len(heap'[sub].history) + 1
            /\ ~Fires(Get(heap[sub].lastStatus, "fsn1"), s) =>
                 /\ NewMessages = << >>
                 /\ heap'[sub].history = heap[sub].history
      ]_vars

\* the same first observation fired twice: lastStatus was not written by
\* the check that fired it first
C18_Witness ==
    /\ Len(sent) = 2
    /\ sent[1].message = sent[2].message
    /\ \E sub \in Listed :
          /\ Len(heap[sub].history) = 2
          /\ heap[sub].history[1].oldStatus = None
          /\ heap[sub].history[2].oldStatus = None
          /\ heap[sub].history[2].status = "available"

---------------------------------------------------------------------------
(* C14 *)

\* C14: whatever the check of a subscription does (check_availability
\* raises, or an item of the snapshot does), the thread goes on with the
\* pass: after the pause of line 395 it checks the next subscription of the
\* list unless running is false by then.  A thread leaves the loop only
\* when running is false.
C14_PassGoesOn ==
    /\ [][\A w \in DOMAIN workers :
             /\ (workers[w].pc = "check" /\ workers'[w] # workers[w]) =>
                   /\ workers'[w].pc = "sleep"
                   /\ workers'[w].idx = workers[w].idx
                   /\ workers'[w].live = workers[w].live
                   /\ workers'[w].iter = workers[w].iter
             /\ (workers[w].pc = "sleep" /\ workers'[w] # workers[w]) =>
                   workers'[w].pc = "for"
             /\ (/\ workers[w].pc = "for"
                 /\ workers'[w] # workers[w]
                 /\ running
                 /\ workers[w].idx <= Len(IterList(w))) =>
                   /\ workers'[w].pc = "check"
                   /\ workers'[w].sub = IterList(w)[workers[w].idx]
             /\ (workers[w].pc # "exited" /\ workers'[w].pc = "exited") => ~running
         ]_vars
    /\ \A w \in 1..WorkerSlots :
          (workers[w].pc = "check" /\ workers[w].sub = subscriptions[1])
             ~> (~running \/ (workers[w].pc = "check" /\ workers[w].sub = subscriptions[2]))

\* the thread is in the check of the second subscription, after a check of
\* the first that raised or returned nothing
C14_Witness ==
    \E w \in DOMAIN workers :
        /\ running
        /\ workers[w].pc = "check"
        /\ workers[w].sub = subscriptions[2]

---------------------------------------------------------------------------
(* C15 *)

\* C15: after a check that went through a snapshot, lastStatus has the
\* status keys of the snapshot and no other, each with the status of the
\* snapshot: the key of a flat item is its location, the key of a location
\* of a configuration item is "location|configKey".  Keys that did not
\* fire and keys the location filter leaves out are among them.
C15_StatusReplaced ==
    [][\A sub \in 1..Len(heap), snapshot \in DetectSnapshots :
          IsCheck(sub, Returns(snapshot)) =>
            /\ DOMAIN heap'[sub].lastStatus = {k.key : k \in StatusKeys(snapshot)}
            /\ \A k \in StatusKeys(snapshot) : heap'[sub].lastStatus[k.key] = k.status
            /\ snapshot \in FlatSnapshots => DOMAIN heap'[sub].lastStatus = {"fsn1"}
            /\ snapshot \in PairSnapshots => DOMAIN heap'[sub].lastStatus = {"fsn1", "rbx"}
            /\ snapshot \in ConfigSnapshots =>
                  DOMAIN heap'[sub].lastStatus = {"rbx|X.32GB.512GB"}
      ]_vars

\* a subscription that monitors rbx only has the status of fsn1, and of
\* nothing else, after a check that sent nothing
C15_Witness ==
    \E sub \in Listed :
        /\ ret.op = "check"
        /\ heap[sub].datacenters = {"rbx"}
        /\ DOMAIN heap[sub].lastStatus = {"fsn1"}
        /\ heap[sub].lastStatus["fsn1"] = "1H"
        /\ sent = << >>

---------------------------------------------------------------------------
(* FilterSpec: a subscription with both flags set, with no location        *)
(* filter, an empty one or a filter of one location, checked on snapshots  *)
(* of two locations, flat and by configuration.                            *)

FilterSnapshots ==
    {<<Flat("fsn1", s1), Flat("rbx", s2)>> :
        s1 \in {"unavailable", "available"}, s2 \in {"unavailable", "available"}}
    \cup
    {<<Config("X.32GB.512GB", <<At("fsn1", s1), At("rbx", s2)>>, "32GB", "512GB")>> :
        s1 \in {"unavailable", "available"}, s2 \in {"unavailable", "available"}}

FilterResults == Results(2, 2, {"ok"})

FilterAdd ==
    \E plan_code \in DetectCodes, datacenters \in {NoneArg, Some({}), Some({"rbx"})} :
        add_subscription(plan_code, datacenters, TRUE, TRUE, None, NoneArg, NoneArg)

FilterChecked ==
    \E sub \in 1..Len(heap), outcome \in Outcomes(FilterSnapshots),
       results \in FilterResults :
        CallCheck(sub, outcome, results)

FilterNext == FilterAdd \/ FilterChecked

FilterSpec == Init /\ [][FilterNext]_vars

---------------------------------------------------------------------------
(* C16 *)

\* C16: a check of a subscription whose datacenters is not empty sends no
\* message and appends no history entry for a location that is not in
\* datacenters, in flat snapshots and in snapshots by configuration; with
\* datacenters empty every location of the snapshot is compared with its
\* prior status and fires if that is a transition.
C16_LocationFilter ==
    [][\A sub \in 1..Len(heap), snapshot \in FilterSnapshots, results \in FilterResults :
          (ret'.op = "check" /\ CallCheck(sub, Returns(snapshot), results)) =>
            LET filter == heap[sub].datacenters
                entries == NewEntries(sub)
            IN  /\ filter # {} =>
                      /\ \A i \in 1..Len(NewMessages) :
                            NewMessages[i].message.datacenter \in filter
                      /\ \A i \in 1..Len(entries) : entries[i].datacenter \in filter
                /\ filter = {} =>
                      \A k \in StatusKeys(snapshot) :
                          Fires(Get(heap[sub].lastStatus, k.key), k.status) =>
                            /\ Len(MessagesOf(NewMessages, k)) = 1
                            /\ Len(EntriesOf(entries, k)) = 1
      ]_vars

\* a subscription that monitors rbx only saw fsn1 and rbx become available
\* in one check: one message, for rbx
C16_Witness ==
    \E sub \in Listed :
        /\ ret.op = "check"
        /\ heap[sub].datacenters = {"rbx"}
        /\ Len(sent) = 1
        /\ sent[1].message.datacenter = "rbx"
        /\ Len(heap[sub].history) = 1
        /\ heap[sub].history[1].datacenter = "rbx"
        /\ \E key \in DOMAIN heap[sub].lastStatus :
              key \notin {"fsn1", "rbx"} /\ heap[sub].lastStatus[key] = "available"
        /\ \A key \in DOMAIN heap[sub].lastStatus : heap[sub].lastStatus[key] = "available"

---------------------------------------------------------------------------
(* RemovalSpec: the loop of LoopSpec, with remove_subscription and         *)
(* clear_subscriptions called while the thread is in a pass.               *)

RemovalNext == Started \/ Stopped \/ Stepped \/ Removed \/ Cleared

RemovalSpec == LoopInit /\ [][RemovalNext]_vars

---------------------------------------------------------------------------
(* C19 *)

\* C19: a thread begins the check of a subscription only if the list has a
\* subscription of that planCode: none begins for a planCode that was
\* removed, or cleared, and not added again.
C19_NoCheckAfterRemove ==
    [][\A w \in DOMAIN workers :
          (workers[w].pc # "check" /\ workers'[w].pc = "check") =>
            \E sub \in Listed :
                heap[sub].planCode = heap[workers'[w].sub].planCode
      ]_vars

=============================================================================
